---------------------------- MODULE Spec2Model ----------------------------
(***************************************************************************)
(* A model of the OneDish recipe conversion endpoint                       *)
(* (src/app/api/convert-recipe/route.ts) and of the page that calls it     *)
(* (src/app/page.tsx).                                                     *)
(*                                                                         *)
(* Specifications.  Spec is one call of POST.  SpecFormat, SpecCategorize, *)
(* SpecParse and SpecPolicy apply formatFraction, categorizeIngredient,    *)
(* parseAmountToNumber and the callback of recipe.ingredients.map to       *)
(* inputs of their own.  SpecPage is the page: its handlers and the        *)
(* continuations of its two fetches, in every interleaving.                *)
(*                                                                         *)
(* Numbers.  The endpoint computes with IEEE doubles.  The model computes  *)
(* with exact rationals [n, d] in lowest terms (d > 0); the record with    *)
(* d = 0 is JavaScript's null, the result of a failed parse.  The inputs   *)
(* of the model are small integers, quarters and short decimals, and the   *)
(* servings are powers of two, so that the comparisons of the code (ties   *)
(* of Math.round, the thresholds 0.25 and 0.5, the 1e-6 tolerance) come    *)
(* out the same in both arithmetics.                                       *)
(*                                                                         *)
(* Text.  Strings are TLA+ strings; Len, SubSeq and \o act on them as on   *)
(* sequences of characters, so parsing and formatting are modelled         *)
(* character by character.                                                 *)
(***************************************************************************)
EXTENDS Integers, Sequences, FiniteSets, TLC

VARIABLES
    req,                 \* the request body: body.recipe, body.targetServings
    pc,                  \* position of POST: "start", "map", "done"
    factor,              \* desiredServings / originalServings
    desiredServings,     \* targetServings, or 1
    baking,              \* isBakingRecipe(recipe)
    warnings,            \* the warnings array POST pushes to
    oneDishIngredients,  \* the ingredients mapped so far
    response,            \* the NextResponse.json(...) returned
    fx,                  \* formatter check: the number given to formatFraction
    ftext,               \* formatter check: formatFraction(fx)
    fback,               \* formatter check: parseAmountToNumber(ftext)
    cname,               \* categorizer check: the ingredient name
    ccat,                \* categorizer check: categorizeIngredient(cname)
    ptext,               \* parser check: the amount given to parseAmountToNumber
    pvalue,              \* parser check: parseAmountToNumber(ptext)
    pformatted,          \* parser check: formatFraction(pvalue)
    xing,                \* callback check: the ingredient given to the callback
    xfactor,             \* callback check: the factor
    xresult,             \* callback check: what the callback returns and pushes
    url,                 \* page: useState("") of the URL field
    parsedRecipe,        \* page: useState<Recipe | null>(null)
    oneDishRecipe,       \* page: useState<Recipe | null>(null)
    urlLoading,          \* page: useState(false)
    urlError,            \* page: useState<string | null>(null)
    targetServings,      \* page: useState<number>(1)
    convertLoading,      \* page: useState(false)
    convertError,        \* page: useState<string | null>(null)
    parseFetch,          \* page: the body of the pending fetch of /api/parse-url
    convertFetch         \* page: the body of the pending fetch of /api/convert-recipe

postVars == <<req, pc, factor, desiredServings, baking, warnings,
              oneDishIngredients, response>>
fmtVars == <<fx, ftext, fback>>
catVars == <<cname, ccat>>
parseVars == <<ptext, pvalue, pformatted>>
policyVars == <<xing, xfactor, xresult>>
pageVars == <<url, parsedRecipe, oneDishRecipe, urlLoading, urlError,
              targetServings, convertLoading, convertError, parseFetch,
              convertFetch>>

vars == <<postVars, fmtVars, catVars, parseVars, policyVars, pageVars>>

-----------------------------------------------------------------------------
(* Optional values: a field that is absent (undefined) is <<>>, a field    *)
(* holding v is <<v>>.                                                     *)
None == <<>>
Some(v) == <<v>>
IsSome(o) == Len(o) = 1
Get(o) == o[1]

-----------------------------------------------------------------------------
(* Numbers                                                                 *)

Abs(k) == IF k < 0 THEN -k ELSE k

RECURSIVE GCD(_, _)
GCD(a, b) == IF b = 0 THEN a ELSE GCD(b, a % b)

\* The rational n/d in lowest terms with a positive denominator.
Rat(n, d) ==
    LET s == IF d < 0 THEN -1 ELSE 1
        g == GCD(Abs(n), Abs(d))
    IN  [n |-> (s * n) \div g, d |-> (s * d) \div g]

Whole(k) == [n |-> k, d |-> 1]
Null == [n |-> 0, d |-> 0]
IsNull(v) == v.d = 0

Add(a, b) == Rat(a.n * b.d + b.n * a.d, a.d * b.d)
Sub(a, b) == Rat(a.n * b.d - b.n * a.d, a.d * b.d)
Mul(a, b) == Rat(a.n * b.n, a.d * b.d)
Div(a, b) == Rat(a.n * b.d, a.d * b.n)
Less(a, b) == a.n * b.d < b.n * a.d
Leq(a, b) == a.n * b.d <= b.n * a.d
RatAbs(a) == [n |-> Abs(a.n), d |-> a.d]
RatMax(a, b) == IF Less(a, b) THEN b ELSE a

\* Math.floor
Floor(a) == a.n \div a.d
\* Math.round: the nearest integer, a tie going up (towards +Infinity).
Round(a) == (2 * a.n + a.d) \div (2 * a.d)

Quarter == Rat(1, 4)
Half == Rat(1, 2)
One == Whole(1)
Zero == Whole(0)

\* 1e-8 and 1e-6, as the denominators of 1/10^8 and 1/10^6.
FloorSlackDen == 100000000
CloseToDen == 1000000

\* Math.floor(a + 1e-8), computed without forming the sum: the floor of a,
\* plus one when a is within 1e-8 below the next integer.
FloorPlusSlack(a) ==
    LET f == a.n \div a.d
        gap == a.d - (a.n % a.d)          \* (f + 1 - a) * a.d, in 1..a.d
    IN  IF gap <= a.d \div FloorSlackDen THEN f + 1 ELSE f

\* |a| < 1/den and |a| > 1/den, for a in lowest terms.
AbsBelow(a, den) == Abs(a.n) <= (a.d - 1) \div den
AbsAbove(a, den) == Abs(a.n) > a.d \div den

-----------------------------------------------------------------------------
(* Text                                                                    *)

Min(S) == CHOOSE x \in S : \A y \in S : x <= y

Char(s, i) == SubSeq(s, i, i)
Digits == <<"0", "1", "2", "3", "4", "5", "6", "7", "8", "9">>
HexDigits == <<"0", "1", "2", "3", "4", "5", "6", "7", "8", "9",
               "a", "b", "c", "d", "e", "f">>
Upper == <<"A", "B", "C", "D", "E", "F", "G", "H", "I", "J", "K", "L", "M",
           "N", "O", "P", "Q", "R", "S", "T", "U", "V", "W", "X", "Y", "Z">>
Lower == <<"a", "b", "c", "d", "e", "f", "g", "h", "i", "j", "k", "l", "m",
           "n", "o", "p", "q", "r", "s", "t", "u", "v", "w", "x", "y", "z">>

Range(f) == {f[i] : i \in DOMAIN f}
\* The position of c in the table t (c occurs in t).
PosIn(t, c) == CHOOSE i \in DOMAIN t : t[i] = c

\* String.prototype.toLowerCase
LowerChar(c) == IF c \in Range(Upper) THEN Lower[PosIn(Upper, c)] ELSE c
RECURSIVE toLowerCase(_)
toLowerCase(s) ==
    IF s = "" THEN ""
    ELSE LowerChar(Char(s, 1)) \o toLowerCase(SubSeq(s, 2, Len(s)))

\* String.prototype.includes
includes(s, k) ==
    \E i \in 1..(Len(s) - Len(k) + 1) : SubSeq(s, i, i + Len(k) - 1) = k

\* The characters \s of a regular expression, and those trim() removes.
IsSpace(c) == c \in {" ", "\t", "\n"}
IsDigit(c) == c \in Range(Digits)
\* \d+
AllDigits(s) == Len(s) >= 1 /\ \A i \in 1..Len(s) : IsDigit(Char(s, i))
\* \s+
AllSpace(s) == Len(s) >= 1 /\ \A i \in 1..Len(s) : IsSpace(Char(s, i))

\* String.prototype.trim
trim(s) ==
    LET I == {i \in 1..Len(s) : ~IsSpace(Char(s, i))}
    IN  IF I = {} THEN "" ELSE SubSeq(s, Min(I), -Min({-i : i \in I}))

\* The first position of a character of cs in s, or 0.
IndexOf(s, cs) ==
    LET I == {i \in 1..Len(s) : Char(s, i) \in cs}
    IN  IF I = {} THEN 0 ELSE Min(I)

\* The value of a string of digits in a radix (Number("007") is 7).
RECURSIVE DigitsValue(_, _)
DigitsValue(s, radix) ==
    IF s = "" THEN 0
    ELSE DigitsValue(SubSeq(s, 1, Len(s) - 1), radix) * radix
         + (PosIn(HexDigits, LowerChar(Char(s, Len(s)))) - 1)

RECURSIVE Pow10(_)
Pow10(k) == IF k = 0 THEN 1 ELSE 10 * Pow10(k - 1)

\* Number.prototype.toString of a non-negative integer.
RECURSIVE NatToString(_)
NatToString(k) ==
    IF k < 10 THEN Digits[k + 1]
    ELSE NatToString(k \div 10) \o Digits[(k % 10) + 1]

-----------------------------------------------------------------------------
(* Number(text) for a trimmed, non-empty text                              *)

\* A digit string of a radix: 0x1F, 0o17, 0b101.
RadixOf(c) == IF c = "x" THEN 16 ELSE IF c = "o" THEN 8 ELSE IF c = "b" THEN 2 ELSE 0
IsRadixLiteral(s) ==
    /\ Len(s) >= 3
    /\ Char(s, 1) = "0"
    /\ RadixOf(LowerChar(Char(s, 2))) > 0
    /\ \A i \in 3..Len(s) :
          /\ LowerChar(Char(s, i)) \in Range(HexDigits)
          /\ PosIn(HexDigits, LowerChar(Char(s, i))) <= RadixOf(LowerChar(Char(s, 2)))

\* digits, digits.digits, digits. or .digits
IsMantissa(m) ==
    LET dot == IndexOf(m, {"."})
        ip == IF dot = 0 THEN m ELSE SubSeq(m, 1, dot - 1)
        fp == IF dot = 0 THEN "" ELSE SubSeq(m, dot + 1, Len(m))
    IN  /\ ip \o fp # ""
        /\ ip = "" \/ AllDigits(ip)
        /\ fp = "" \/ AllDigits(fp)
MantissaValue(m) ==
    LET dot == IndexOf(m, {"."})
        ip == IF dot = 0 THEN m ELSE SubSeq(m, 1, dot - 1)
        fp == IF dot = 0 THEN "" ELSE SubSeq(m, dot + 1, Len(m))
    IN  Rat(DigitsValue(ip \o fp, 10), Pow10(Len(fp)))

\* An exponent part: e or E, an optional sign, digits.
IsExponent(e) ==
    /\ Len(e) >= 2
    /\ Char(e, 1) \in {"e", "E"}
    /\ AllDigits(IF Char(e, 2) \in {"+", "-"} THEN SubSeq(e, 3, Len(e))
                 ELSE SubSeq(e, 2, Len(e)))
ExponentScale(e) ==
    IF e = "" THEN One
    ELSE IF Char(e, 2) = "-" THEN Rat(1, Pow10(DigitsValue(SubSeq(e, 3, Len(e)), 10)))
    ELSE IF Char(e, 2) = "+" THEN Whole(Pow10(DigitsValue(SubSeq(e, 3, Len(e)), 10)))
    ELSE Whole(Pow10(DigitsValue(SubSeq(e, 2, Len(e)), 10)))

\* Number(s): the value of a numeric string literal, Null for NaN.  The
\* literal Infinity, whose value is not a rational, is not among the inputs.
Number(s) ==
    IF IsRadixLiteral(s)
    THEN Whole(DigitsValue(SubSeq(s, 3, Len(s)), RadixOf(LowerChar(Char(s, 2)))))
    ELSE
      LET signed == Char(s, 1) \in {"+", "-"}
          body == IF signed THEN SubSeq(s, 2, Len(s)) ELSE s
          ePos == IndexOf(body, {"e", "E"})
          m == IF ePos = 0 THEN body ELSE SubSeq(body, 1, ePos - 1)
          e == IF ePos = 0 THEN "" ELSE SubSeq(body, ePos, Len(body))
          v == Mul(MantissaValue(m), ExponentScale(e))
      IN  IF IsMantissa(m) /\ (e = "" \/ IsExponent(e))
          THEN (IF Char(s, 1) = "-" THEN Sub(Zero, v) ELSE v)
          ELSE Null

-----------------------------------------------------------------------------
(* parseAmountToNumber and formatFraction                                  *)

\* /^\d+\/\d+$/
IsSimpleFraction(t) ==
    LET slash == IndexOf(t, {"/"})
    IN  /\ slash > 0
        /\ AllDigits(SubSeq(t, 1, slash - 1))
        /\ AllDigits(SubSeq(t, slash + 1, Len(t)))

\* num / den of a text d+/d+; Null when den is 0.
FractionValue(t) ==
    LET slash == IndexOf(t, {"/"})
        num == DigitsValue(SubSeq(t, 1, slash - 1), 10)
        den == DigitsValue(SubSeq(t, slash + 1, Len(t)), 10)
    IN  IF den = 0 THEN Null ELSE Rat(num, den)

\* /^\d+\s+\d+\/\d+$/
IsMixedNumber(t) ==
    LET sp == IndexOf(t, {" ", "\t", "\n"})
        I == {i \in 1..Len(t) : IsSpace(Char(t, i))}
        last == -Min({-i : i \in I})
    IN  /\ sp > 0
        /\ AllDigits(SubSeq(t, 1, sp - 1))
        /\ AllSpace(SubSeq(t, sp, last))
        /\ IsSimpleFraction(SubSeq(t, last + 1, Len(t)))

MixedValue(t) ==
    LET sp == IndexOf(t, {" ", "\t", "\n"})
        I == {i \in 1..Len(t) : IsSpace(Char(t, i))}
        last == -Min({-i : i \in I})
        fr == FractionValue(SubSeq(t, last + 1, Len(t)))
    IN  IF IsNull(fr) THEN Null
        ELSE Add(Whole(DigitsValue(SubSeq(t, 1, sp - 1), 10)), fr)

\* amount is an optional text: None when the ingredient has no amount.
parseAmountToNumber(amount) ==
    IF ~IsSome(amount) \/ Get(amount) = "" THEN Null
    ELSE LET trimmed == trim(Get(amount))
         IN  IF trimmed = "" THEN Null
             ELSE IF IsSimpleFraction(trimmed) THEN FractionValue(trimmed)
             ELSE IF IsMixedNumber(trimmed) THEN MixedValue(trimmed)
             ELSE Number(trimmed)

\* closeTo(x, target): Math.abs(x - target) < 1e-6
closeTo(x, target) == AbsBelow(Sub(x, target), CloseToDen)

\* Number.prototype.toFixed(2) of a value in [0, 1).
toFixed2(x) ==
    LET h == Round(Mul(x, Whole(100)))
    IN  NatToString(h \div 100) \o "." \o Digits[((h \div 10) % 10) + 1]
        \o Digits[(h % 10) + 1]

\* Number.prototype.toString of a multiple of 1/4.
QuarterToString(q) ==
    LET a == RatAbs(q)
        w == Floor(a)
        r == Sub(a, Whole(w))
    IN  (IF q.n < 0 THEN "-" ELSE "") \o NatToString(w)
        \o (IF r = Quarter THEN ".25" ELSE IF r = Half THEN ".5"
            ELSE IF r = Rat(3, 4) THEN ".75" ELSE "")

\* formatFraction rounding down to a quarter instead of to the nearest.
formatFractionRoundingDown(value) ==
    LET rounded == Rat(Floor(Mul(value, Whole(4))), 4)
        whole == FloorPlusSlack(rounded)
        frac == Sub(rounded, Whole(whole))
        fracStr == IF closeTo(frac, Zero) THEN ""
                   ELSE IF closeTo(frac, Quarter) THEN "1/4"
                   ELSE IF closeTo(frac, Half) THEN "1/2"
                   ELSE IF closeTo(frac, Rat(3, 4)) THEN "3/4"
                   ELSE toFixed2(frac)
    IN  IF whole = 0 /\ fracStr # "" THEN fracStr
        ELSE IF whole > 0 /\ fracStr = "" THEN NatToString(whole)
        ELSE IF whole > 0 /\ fracStr # "" THEN NatToString(whole) \o " " \o fracStr
        ELSE QuarterToString(rounded)

formatFraction(value) ==
    LET rounded == Rat(Round(Mul(value, Whole(4))), 4)
        whole == FloorPlusSlack(rounded)
        frac == Sub(rounded, Whole(whole))
        fracStr == IF closeTo(frac, Zero) THEN ""
                   ELSE IF closeTo(frac, Quarter) THEN "1/4"
                   ELSE IF closeTo(frac, Half) THEN "1/2"
                   ELSE IF closeTo(frac, Rat(3, 4)) THEN "3/4"
                   ELSE toFixed2(frac)
    IN  IF whole = 0 /\ fracStr # "" THEN fracStr
        ELSE IF whole > 0 /\ fracStr = "" THEN NatToString(whole)
        ELSE IF whole > 0 /\ fracStr # "" THEN NatToString(whole) \o " " \o fracStr
        ELSE QuarterToString(rounded)

-----------------------------------------------------------------------------
(* categorizeIngredient, isBakingRecipe                                    *)

EggWords == <<"egg">>
LemonLimeWords == <<"lemon", "lime">>
OnionWords == <<"onion", "shallot">>
GarlicWords == <<"garlic">>
HerbWords == <<"parsley", "cilantro", "basil", "thyme", "oregano", "rosemary",
               "sage", "dill", "mint", "chive">>
SpiceWords == <<"cumin", "paprika", "turmeric", "coriander", "chili powder",
                "chilli powder", "cayenne", "cinnamon", "nutmeg", "allspice",
                "curry powder", "garam masala", "five-spice">>
OilWords == <<"olive oil", "vegetable oil", "canola oil", "avocado oil",
              "sesame oil", "coconut oil">>
LiquidWords == <<"soy sauce", "vinegar", "fish sauce", "broth", "stock", "wine",
                 "lemon juice", "lime juice", "milk", "cream">>
FlourWords == <<"flour">>
SugarWords == <<"sugar">>
BakingAgentWords == <<"baking powder", "baking soda", "yeast">>
SaltWords == <<"salt">>

\* words.some((w) => n.includes(w))
IncludesSome(n, words) == \E k \in DOMAIN words : includes(n, words[k])

\* categorizeIngredient testing the liquids before lemon and lime, and the
\* spices before garlic.
categorizeIngredientReordered(name) ==
    LET n == toLowerCase(name)
    IN  IF IncludesSome(n, EggWords) THEN "egg"
        ELSE IF IncludesSome(n, LiquidWords) THEN "liquid"
        ELSE IF IncludesSome(n, LemonLimeWords) THEN "lemonLime"
        ELSE IF IncludesSome(n, OnionWords) THEN "onion"
        ELSE IF IncludesSome(n, SpiceWords) THEN "spice"
        ELSE IF IncludesSome(n, GarlicWords) THEN "garlic"
        ELSE IF IncludesSome(n, HerbWords) THEN "herb"
        ELSE IF IncludesSome(n, OilWords) THEN "oil"
        ELSE IF IncludesSome(n, FlourWords) THEN "flour"
        ELSE IF IncludesSome(n, SugarWords) THEN "sugar"
        ELSE IF IncludesSome(n, BakingAgentWords) THEN "bakingAgent"
        ELSE IF IncludesSome(n, SaltWords) THEN "salt"
        ELSE "other"

categorizeIngredient(name) ==
    LET n == toLowerCase(name)
    IN  IF IncludesSome(n, EggWords) THEN "egg"
        ELSE IF IncludesSome(n, LemonLimeWords) THEN "lemonLime"
        ELSE IF IncludesSome(n, OnionWords) THEN "onion"
        ELSE IF IncludesSome(n, GarlicWords) THEN "garlic"
        ELSE IF IncludesSome(n, HerbWords) THEN "herb"
        ELSE IF IncludesSome(n, SpiceWords) THEN "spice"
        ELSE IF IncludesSome(n, OilWords) THEN "oil"
        ELSE IF IncludesSome(n, LiquidWords) THEN "liquid"
        ELSE IF IncludesSome(n, FlourWords) THEN "flour"
        ELSE IF IncludesSome(n, SugarWords) THEN "sugar"
        ELSE IF IncludesSome(n, BakingAgentWords) THEN "bakingAgent"
        ELSE IF IncludesSome(n, SaltWords) THEN "salt"
        ELSE "other"

bakingWords == <<"cake", "muffin", "bread", "cookie", "brownie", "loaf", "pie",
                 "tart", "pastry", "scone", "biscuit">>
bakingSignals == <<"flour", "baking powder", "baking soda", "yeast", "dough">>

\* recipe.ingredients.map((i) => i.name.toLowerCase()).join(" ")
RECURSIVE JoinedNames(_)
JoinedNames(ings) ==
    IF ings = <<>> THEN ""
    ELSE IF Len(ings) = 1 THEN toLowerCase(ings[1].name)
    ELSE toLowerCase(ings[1].name) \o " " \o JoinedNames(Tail(ings))

\* The recipe has a title and an ingredient list (isBakingRecipe does not throw).
isBakingRecipe(recipe) ==
    \/ IncludesSome(toLowerCase(Get(recipe.title)), bakingWords)
    \/ LET text == JoinedNames(Get(recipe.ingredients))
           hits == Cardinality({k \in DOMAIN bakingSignals :
                                    includes(text, bakingSignals[k])})
       IN  hits >= 2

-----------------------------------------------------------------------------
(* POST: the per-ingredient policy                                         *)

BakingCaution ==
    "This looks like a baking recipe. Scaling it this far down may affect texture or rise. Double-check key measurements."
EggWarning == "Eggs were rounded to the nearest whole egg for practicality."
LemonLimeWarning == "Lemon/lime quantity was rounded to the nearest half for usability."
OnionWarning == "Onion amount was rounded to the nearest quarter onion."
GarlicWarning == "Garlic cloves were rounded to whole cloves for proper flavor."
\* The source writes an en dash where this text has " - ".
HerbWarning(name) ==
    "The amount of \"" \o name \o "\" is very small after scaling. It's marked as optional - feel free to skip if you like."
SpiceWarning(name) ==
    "The amount of \"" \o name \o "\" became extremely small. It's marked as optional or \"to taste\" so you can adjust."
LowLiquidWarning(name) ==
    "The amount of \"" \o name \o "\" was very low; it was increased slightly to keep flavor and texture balanced."
StructuralWarning(name) ==
    "The amount of \"" \o name \o "\" is much lower after scaling. This could affect structure; measure carefully."

\* Math.round(scaled * steps) / steps
RoundToSteps(scaled, steps) == Rat(Round(Mul(scaled, Whole(steps))), steps)

\* The cases of the switch on the category: the final amount, the optional
\* flag and the warnings pushed, for an ingredient whose amount parsed to
\* baseAmount and scaled to scaled.
\* EggPolicy without the floor of one egg.
EggPolicyNoFloor(scaled) ==
    LET roundedEggs == Whole(Round(scaled))
    IN  [finalAmount |-> roundedEggs, optional |-> FALSE,
         pushed |-> IF roundedEggs # scaled THEN <<EggWarning>> ELSE <<>>]

EggPolicy(scaled) ==
    LET roundedEggs == RatMax(One, Whole(Round(scaled)))
    IN  [finalAmount |-> roundedEggs, optional |-> FALSE,
         pushed |-> IF roundedEggs # scaled THEN <<EggWarning>> ELSE <<>>]

LemonLimePolicy(scaled) ==
    LET finalAmount == RatMax(Half, RoundToSteps(scaled, 2))
    IN  [finalAmount |-> finalAmount, optional |-> FALSE,
         pushed |-> IF AbsAbove(Sub(finalAmount, scaled), CloseToDen)
                    THEN <<LemonLimeWarning>> ELSE <<>>]

OnionPolicy(scaled) ==
    LET finalAmount == RatMax(Quarter, RoundToSteps(scaled, 4))
    IN  [finalAmount |-> finalAmount, optional |-> FALSE,
         pushed |-> IF AbsAbove(Sub(finalAmount, scaled), CloseToDen)
                    THEN <<OnionWarning>> ELSE <<>>]

GarlicPolicy(scaled) ==
    LET cloves == RatMax(One, Whole(Round(scaled)))
    IN  [finalAmount |-> cloves, optional |-> FALSE,
         pushed |-> IF cloves # scaled THEN <<GarlicWarning>> ELSE <<>>]

\* HerbPolicy with the threshold of SpicePolicy.
HerbPolicyQuarterThreshold(name, scaled) ==
    [finalAmount |-> RatMax(Quarter, RoundToSteps(scaled, 4)),
     optional |-> Less(scaled, Quarter),
     pushed |-> IF Less(scaled, Quarter) THEN <<HerbWarning(name)>> ELSE <<>>]

HerbPolicy(name, scaled) ==
    [finalAmount |-> RatMax(Quarter, RoundToSteps(scaled, 4)),
     optional |-> Less(scaled, Half),
     pushed |-> IF Less(scaled, Half) THEN <<HerbWarning(name)>> ELSE <<>>]

SpicePolicy(name, scaled) ==
    [finalAmount |-> RatMax(Quarter, RoundToSteps(scaled, 4)),
     optional |-> Less(scaled, Quarter),
     pushed |-> IF Less(scaled, Quarter) THEN <<SpiceWarning(name)>> ELSE <<>>]

\* LiquidPolicy warning when the rounded value, not the scaled one, is below
\* the floor.
LiquidPolicyWarnsAfterRounding(name, scaled) ==
    [finalAmount |-> RatMax(Half, RoundToSteps(scaled, 2)),
     optional |-> FALSE,
     pushed |-> IF Less(RoundToSteps(scaled, 2), Half)
                THEN <<LowLiquidWarning(name)>> ELSE <<>>]

LiquidPolicy(name, scaled) ==
    [finalAmount |-> RatMax(Half, RoundToSteps(scaled, 2)),
     optional |-> FALSE,
     pushed |-> IF Less(scaled, Half) THEN <<LowLiquidWarning(name)>> ELSE <<>>]

\* StructuralPolicy with the floor of a quarter the herbs and spices have.
StructuralPolicyQuarterFloor(name, baseAmount, scaled) ==
    [finalAmount |-> RatMax(Quarter, RoundToSteps(scaled, 4)),
     optional |-> FALSE,
     pushed |-> IF Less(scaled, Mul(baseAmount, Quarter))
                THEN <<StructuralWarning(name)>> ELSE <<>>]

StructuralPolicy(name, baseAmount, scaled) ==
    LET quarter == RoundToSteps(scaled, 4)
    IN  [finalAmount |-> RatMax(quarter, IF Less(Zero, scaled) THEN quarter ELSE Zero),
         optional |-> FALSE,
         pushed |-> IF Less(scaled, Mul(baseAmount, Quarter))
                    THEN <<StructuralWarning(name)>> ELSE <<>>]

GenericPolicy(scaled) ==
    [finalAmount |-> RoundToSteps(scaled, 4), optional |-> FALSE, pushed |-> <<>>]

CategoryPolicy(category, name, baseAmount, scaled) ==
    IF category = "egg" THEN EggPolicy(scaled)
    ELSE IF category = "lemonLime" THEN LemonLimePolicy(scaled)
    ELSE IF category = "onion" THEN OnionPolicy(scaled)
    ELSE IF category = "garlic" THEN GarlicPolicy(scaled)
    ELSE IF category = "herb" THEN HerbPolicy(name, scaled)
    ELSE IF category = "spice" THEN SpicePolicy(name, scaled)
    ELSE IF category \in {"oil", "liquid"} THEN LiquidPolicy(name, scaled)
    ELSE IF category \in {"flour", "sugar", "bakingAgent"}
    THEN StructuralPolicy(name, baseAmount, scaled)
    ELSE GenericPolicy(scaled)

\* ConvertIngredient taking an amount that does not parse for 0.
ConvertIngredientNullAsZero(ing, f) ==
    LET category == categorizeIngredient(ing.name)
        parsed == parseAmountToNumber(ing.amount)
        baseAmount == IF IsNull(parsed) THEN Zero ELSE parsed
        scaled == Mul(baseAmount, f)
        policy == CategoryPolicy(category, ing.name, baseAmount, scaled)
    IN  [out |-> [name |-> ing.name,
                  amount |-> Some(formatFraction(policy.finalAmount)),
                  unit |-> ing.unit, optional |-> policy.optional],
         pushed |-> policy.pushed]

\* The callback of recipe.ingredients.map: the output ingredient and the
\* warnings it pushes.
ConvertIngredient(ing, f) ==
    LET category == categorizeIngredient(ing.name)
        baseAmount == parseAmountToNumber(ing.amount)
        scaled == Mul(baseAmount, f)
        policy == CategoryPolicy(category, ing.name, baseAmount, scaled)
    IN  IF IsNull(baseAmount)
        THEN [out |-> [name |-> ing.name, amount |-> ing.amount, unit |-> ing.unit,
                       optional |-> FALSE],
              pushed |-> <<>>]
        ELSE [out |-> [name |-> ing.name,
                       amount |-> Some(formatFraction(policy.finalAmount)),
                       unit |-> ing.unit, optional |-> policy.optional],
              pushed |-> policy.pushed]

\* recipe.servings && recipe.servings > 0 ? recipe.servings : 1, and the same
\* for targetServings.
PositiveOrOne(o) == IF IsSome(o) /\ Get(o) > 0 THEN Get(o) ELSE 1

\* ScaleFactor upside down.
ScaleFactorInverted(servings, target) ==
    Div(Whole(PositiveOrOne(servings)), Whole(PositiveOrOne(target)))

\* desiredServings / originalServings
ScaleFactor(servings, target) ==
    Div(Whole(PositiveOrOne(target)), Whole(PositiveOrOne(servings)))

\* Dedup that keeps every string.
DedupKeepsAll(ws) == ws

\* Array.from(new Set(ws)): each string once, in the order of first occurrence.
RECURSIVE Dedup(_)
Dedup(ws) ==
    IF ws = <<>> THEN <<>>
    ELSE LET front == Dedup(SubSeq(ws, 1, Len(ws) - 1))
             last == ws[Len(ws)]
         IN  IF last \in Range(front) THEN front ELSE Append(front, last)


\* OneDish of the simpler variant of the endpoint, which renames the recipe.
OneDishRenamed(recipe, desired, ingredients, ws) ==
    [title |-> Some(Get(recipe.title) \o " (" \o NatToString(desired) \o "-serving version)"),
     sourceUrl |-> recipe.sourceUrl,
     servings |-> desired,
     ingredients |-> ingredients,
     steps |-> recipe.steps,
     estimatedTimeMinutes |-> recipe.estimatedTimeMinutes,
     warnings |-> IF Len(ws) # 0 THEN Some(Dedup(ws)) ELSE None]

\* The converted recipe; JSON leaves out a field that is undefined.
OneDish(recipe, desired, ingredients, ws) ==
    [title |-> recipe.title,
     sourceUrl |-> recipe.sourceUrl,
     servings |-> desired,
     ingredients |-> ingredients,
     steps |-> recipe.steps,
     estimatedTimeMinutes |-> recipe.estimatedTimeMinutes,
     warnings |-> IF Len(ws) # 0 THEN Some(Dedup(ws)) ELSE None]

-----------------------------------------------------------------------------
(* The requests of the model                                               *)

MaxIngredients == 2

\* An ingredient of a request.  amount and unit are optional.
Ing(name, amount, unit) == [name |-> name, amount |-> amount, unit |-> unit]

Pool ==
    { Ing("eggs", Some("4"), None),
      Ing("fresh basil", Some("1"), Some("cup")),
      Ing("salt", Some("to taste"), None),
      Ing("chicken thighs", None, None),
      Ing("garlic cloves", Some("1 1/2"), None),
      Ing("lemon juice", Some("1/2"), Some("tbsp")),
      Ing("ground cumin", Some(" 1/2 "), Some("tsp")),
      Ing("olive oil", Some("1"), Some("tbsp")),
      Ing("yellow onion", Some("1"), None),
      Ing("flour for baking", Some("2"), Some("cups")),
      Ing("active dry yeast", Some("2.5"), Some("tsp")),
      Ing("soda water", Some("1/3"), Some("cup")) }

IngredientLists == UNION {[1..k -> Pool] : k \in 0..MaxIngredients}

\* The fields of a recipe the conversion passes through, with its title.
Shells ==
    { [title |-> Some("Chocolate Cake"), sourceUrl |-> Some("https://example.com/cake"),
       steps |-> <<"Mix.", "Bake.">>, estimatedTimeMinutes |-> Some(45)],
      [title |-> Some("Weeknight Soup"), sourceUrl |-> None,
       steps |-> <<"Simmer.">>, estimatedTimeMinutes |-> None] }
\* What an extraction that found no title hands on.
UntitledShell ==
    [title |-> None, sourceUrl |-> Some("https://example.com/page"),
     steps |-> <<>>, estimatedTimeMinutes |-> None]

\* recipe.servings: absent, invalid, or a power of two (the factor is then
\* exact in binary floating point as it is here).
ServingsValues == {None, Some(0), Some(4), Some(16)}
TargetValues == {None, Some(-2), Some(1), Some(2), Some(3)}

Recipe(shell, servings, ingredients) ==
    [title |-> shell.title, sourceUrl |-> shell.sourceUrl, servings |-> servings,
     ingredients |-> ingredients, steps |-> shell.steps,
     estimatedTimeMinutes |-> shell.estimatedTimeMinutes]

Recipes ==
    {Recipe(sh, sv, Some(l)) : sh \in Shells, sv \in ServingsValues, l \in IngredientLists}
    \cup {Recipe(sh, sv, None) : sh \in Shells \cup {UntitledShell}, sv \in ServingsValues}
    \cup {Recipe(UntitledShell, sv, Some(<<i>>)) : sv \in ServingsValues, i \in Pool}

Requests ==
    {[recipe |-> Some(r), targetServings |-> t] : r \in Recipes, t \in TargetValues}
    \cup {[recipe |-> None, targetServings |-> t] : t \in TargetValues}

NoRequest == [recipe |-> None, targetServings |-> None]
NoResponse == [status |-> 0]

-----------------------------------------------------------------------------
(* POST                                                                    *)

PostIdle ==
    /\ req = NoRequest /\ pc = "idle" /\ factor = One /\ desiredServings = 1
    /\ baking = FALSE /\ warnings = <<>> /\ oneDishIngredients = <<>>
    /\ response = NoResponse
FormatIdle == fx = Zero /\ ftext = None /\ fback = None
CategorizeIdle == cname = "" /\ ccat = None
ParseIdle == ptext = None /\ pvalue = None /\ pformatted = None
PolicyIdle == xing = Ing("", None, None) /\ xfactor = One /\ xresult = None
\* The state of the page as useState initializes it, with no fetch pending.
PageIdle ==
    /\ url = "" /\ parsedRecipe = None /\ oneDishRecipe = None
    /\ urlLoading = FALSE /\ urlError = None /\ targetServings = 1
    /\ convertLoading = FALSE /\ convertError = None
    /\ parseFetch = None /\ convertFetch = None

Init ==
    /\ req \in Requests
    /\ pc = "start"
    /\ factor = One
    /\ desiredServings = 1
    /\ baking = FALSE
    /\ warnings = <<>>
    /\ oneDishIngredients = <<>>
    /\ response = NoResponse
    /\ FormatIdle
    /\ CategorizeIdle
    /\ ParseIdle
    /\ PolicyIdle
    /\ PageIdle

\* if (!recipe) return NextResponse.json({ error: ... }, { status: 400 })
RejectMissingRecipe ==
    /\ pc = "start"
    /\ ~IsSome(req.recipe)
    /\ response' = [status |-> 400, error |-> "Missing recipe in request body."]
    /\ pc' = "done"
    /\ UNCHANGED <<req, factor, desiredServings, baking, warnings, oneDishIngredients>>
    /\ UNCHANGED <<fmtVars, catVars, parseVars, policyVars, pageVars>>

\* recipe.title.toLowerCase() or recipe.ingredients.map(...) throws a
\* TypeError, which the catch turns into the status 500.
Throws(recipe) == ~IsSome(recipe.title) \/ ~IsSome(recipe.ingredients)

ConversionThrows ==
    /\ pc = "start"
    /\ IsSome(req.recipe)
    /\ Throws(Get(req.recipe))
    /\ response' = [status |-> 500, error |-> "Failed to convert recipe."]
    /\ pc' = "done"
    /\ UNCHANGED <<req, factor, desiredServings, baking, warnings, oneDishIngredients>>
    /\ UNCHANGED <<fmtVars, catVars, parseVars, policyVars, pageVars>>

\* The factor, the baking check and its warning.
BeginConversion ==
    /\ pc = "start"
    /\ IsSome(req.recipe)
    /\ ~Throws(Get(req.recipe))
    /\ LET recipe == Get(req.recipe)
           f == ScaleFactor(recipe.servings, req.targetServings)
           b == isBakingRecipe(recipe)
       IN  /\ desiredServings' = PositiveOrOne(req.targetServings)
           /\ factor' = f
           /\ baking' = b
           /\ warnings' = IF b /\ Less(f, Half) THEN <<BakingCaution>> ELSE <<>>
    /\ pc' = "map"
    /\ UNCHANGED <<req, oneDishIngredients, response>>
    /\ UNCHANGED <<fmtVars, catVars, parseVars, policyVars, pageVars>>

\* One call of the callback of recipe.ingredients.map.
MapIngredient ==
    /\ pc = "map"
    /\ Len(oneDishIngredients) < Len(Get(Get(req.recipe).ingredients))
    /\ LET ing == Get(Get(req.recipe).ingredients)[Len(oneDishIngredients) + 1]
           r == ConvertIngredient(ing, factor)
       IN  /\ oneDishIngredients' = Append(oneDishIngredients, r.out)
           /\ warnings' = warnings \o r.pushed
    /\ UNCHANGED <<req, pc, factor, desiredServings, baking, response>>
    /\ UNCHANGED <<fmtVars, catVars, parseVars, policyVars, pageVars>>

\* return NextResponse.json(oneDish)
Respond ==
    /\ pc = "map"
    /\ Len(oneDishIngredients) = Len(Get(Get(req.recipe).ingredients))
    /\ response' = [status |-> 200,
                    body |-> OneDish(Get(req.recipe), desiredServings,
                                     oneDishIngredients, warnings)]
    /\ pc' = "done"
    /\ UNCHANGED <<req, factor, desiredServings, baking, warnings, oneDishIngredients>>
    /\ UNCHANGED <<fmtVars, catVars, parseVars, policyVars, pageVars>>

Next ==
    \/ RejectMissingRecipe
    \/ ConversionThrows
    \/ BeginConversion
    \/ MapIngredient
    \/ Respond

Spec == Init /\ [][Next]_vars

-----------------------------------------------------------------------------
(* formatFraction and parseAmountToNumber on their own: a value of         *)
(* [0, MaxX] on a grid of 1/GridDen is formatted, and the text parsed.     *)

MaxX == 50
GridDen == 16

FormatInit ==
    /\ PostIdle
    /\ CategorizeIdle
    /\ ParseIdle
    /\ PolicyIdle
    /\ PageIdle
    /\ fx \in {Rat(k, GridDen) : k \in 0..(MaxX * GridDen)}
    /\ ftext = None
    /\ fback = None

FormatValue ==
    /\ ftext = None
    /\ ftext' = Some(formatFraction(fx))
    /\ UNCHANGED <<fx, fback>>
    /\ UNCHANGED <<postVars, catVars, parseVars, policyVars, pageVars>>

ParseBack ==
    /\ ftext # None
    /\ fback = None
    /\ fback' = Some(parseAmountToNumber(ftext))
    /\ UNCHANGED <<fx, ftext>>
    /\ UNCHANGED <<postVars, catVars, parseVars, policyVars, pageVars>>

FormatNext == FormatValue \/ ParseBack

SpecFormat == FormatInit /\ [][FormatNext]_vars

-----------------------------------------------------------------------------
(* categorizeIngredient on its own: names of up to MaxWords words.         *)

MaxWords == 2

NameWords ==
    { "Egg", "lemon", "LIME", "onion", "Shallot", "garlic", "basil", "sausage",
      "cumin", "chili", "powder", "olive", "oil", "milk", "juice", "flour",
      "SUGAR", "yeast", "baking", "soda", "salt", "water" }

RECURSIVE NamesOf(_)
NamesOf(k) ==
    IF k = 1 THEN NameWords
    ELSE NamesOf(k - 1) \cup {n \o " " \o w : n \in NamesOf(k - 1), w \in NameWords}

CategorizeInit ==
    /\ PostIdle
    /\ FormatIdle
    /\ ParseIdle
    /\ PolicyIdle
    /\ PageIdle
    /\ cname \in NamesOf(MaxWords)
    /\ ccat = None

Categorize ==
    /\ ccat = None
    /\ ccat' = Some(categorizeIngredient(cname))
    /\ UNCHANGED cname
    /\ UNCHANGED <<postVars, fmtVars, parseVars, policyVars, pageVars>>

CategorizeNext == Categorize

SpecCategorize == CategorizeInit /\ [][CategorizeNext]_vars

-----------------------------------------------------------------------------
(* parseAmountToNumber on any text, and formatFraction on what it returns: *)
(* the amounts are absent, or texts of up to MaxLen characters of Alphabet,*)
(* or one of AmountTexts.                                                  *)

MaxLen == 4

Alphabet == {"0", "1", "2", "/", " ", ".", "x", "e", "-"}

RECURSIVE TextsOf(_)
TextsOf(k) ==
    IF k = 0 THEN {""}
    ELSE TextsOf(k - 1) \cup {t \o c : t \in TextsOf(k - 1), c \in Alphabet}

\* The exponent of the text, if it has one, is of one digit: the value of
\* the text is then within the integers of the model.
ExponentFits(t) ==
    LET ePos == IndexOf(t, {"e"})
    IN  ePos = 0 \/ Cardinality({i \in (ePos + 1)..Len(t) : IsDigit(Char(t, i))}) <= 1

AmountTexts ==
    { "to taste", "a pinch", "1 1/2", "1  1/2", " 3/4 ", "1/0", "2 1/0", "2.50",
      "0x1F", "0b101", "0o17", "1E2", "+1", "1,5", "1/2 cup", "\t2\n",
      "-0.5", "0.125", "12.75" }

ParseTexts == {t \in TextsOf(MaxLen) : ExponentFits(t)} \cup AmountTexts

ParseInit ==
    /\ PostIdle
    /\ FormatIdle
    /\ CategorizeIdle
    /\ PolicyIdle
    /\ PageIdle
    /\ ptext \in {None} \cup {Some(t) : t \in ParseTexts}
    /\ pvalue = None
    /\ pformatted = None

ParseAmount ==
    /\ pvalue = None
    /\ pvalue' = Some(parseAmountToNumber(ptext))
    /\ UNCHANGED <<ptext, pformatted>>
    /\ UNCHANGED <<postVars, fmtVars, catVars, policyVars, pageVars>>

\* formatFraction(finalAmount) of an amount that parsed and is written as it
\* is (factor 1, no category policy).
FormatParsed ==
    /\ pvalue # None
    /\ ~IsNull(Get(pvalue))
    /\ pformatted = None
    /\ pformatted' = Some(formatFraction(Get(pvalue)))
    /\ UNCHANGED <<ptext, pvalue>>
    /\ UNCHANGED <<postVars, fmtVars, catVars, policyVars, pageVars>>

ParseNext == ParseAmount \/ FormatParsed

SpecParse == ParseInit /\ [][ParseNext]_vars

-----------------------------------------------------------------------------
(* The callback of recipe.ingredients.map on its own: one ingredient of a  *)
(* category with a policy of its own, and a factor target / servings with  *)
(* target in 1..MaxTarget.                                                 *)

MaxTarget == 3

\* Names of the categories egg, lemonLime, onion and garlic, whose warning
\* says that rounding changed the amount.
RoundedNames == {"eggs", "lemon", "yellow onion", "garlic cloves"}
\* Names of the categories oil and liquid, and flour, sugar and bakingAgent.
LiquidNames == {"olive oil", "soy sauce"}
StructuralNames == {"flour", "brown sugar", "yeast"}

PolicyAmounts == {"0", "1", "2", "3", "1/2", "1/4", "1 1/2", "0.4", "-1", "to taste"}
\* Amounts within 1e-6 of a whole number or of a half.
NearAmounts == {"1.0000005", "0.9999995", "2.000002", "0.4999995"}

PolicyIngredients ==
    {Ing(n, Some(a), None) : n \in RoundedNames, a \in PolicyAmounts \cup NearAmounts}
    \cup {Ing(n, Some(a), Some("cup")) :
            n \in LiquidNames \cup StructuralNames, a \in PolicyAmounts}

\* recipe.servings of the callback check: powers of two.
PolicyServings == {1, 2, 4, 8}

PolicyInit ==
    /\ PostIdle
    /\ FormatIdle
    /\ CategorizeIdle
    /\ ParseIdle
    /\ PageIdle
    /\ xing \in PolicyIngredients
    /\ xfactor \in {ScaleFactor(Some(s), Some(t)) : s \in PolicyServings, t \in 1..MaxTarget}
    /\ xresult = None

ApplyPolicy ==
    /\ xresult = None
    /\ xresult' = Some(ConvertIngredient(xing, xfactor))
    /\ UNCHANGED <<xing, xfactor>>
    /\ UNCHANGED <<postVars, fmtVars, catVars, parseVars, pageVars>>

PolicyNext == ApplyPolicy

SpecPolicy == PolicyInit /\ [][PolicyNext]_vars

-----------------------------------------------------------------------------
(* The page (src/app/page.tsx): the state of Home, its handlers up to      *)
(* their await, and the continuations that run when a fetch settles.       *)

\* recipe.ingredients.map(callback): the output ingredients and the warnings
\* pushed, in order.
RECURSIVE MapIngredients(_, _)
MapIngredients(ings, f) ==
    IF ings = <<>> THEN [outs |-> <<>>, pushed |-> <<>>]
    ELSE LET front == MapIngredients(SubSeq(ings, 1, Len(ings) - 1), f)
             r == ConvertIngredient(ings[Len(ings)], f)
         IN  [outs |-> Append(front.outs, r.out), pushed |-> front.pushed \o r.pushed]

\* The body of the 200 response of /api/convert-recipe to a request whose
\* recipe has a title and an ingredient list.
ConvertedRecipe(recipe, target) ==
    LET f == ScaleFactor(recipe.servings, target)
        caution == IF isBakingRecipe(recipe) /\ Less(f, Half)
                   THEN <<BakingCaution>> ELSE <<>>
        mapped == MapIngredients(Get(recipe.ingredients), f)
    IN  OneDish(recipe, PositiveOrOne(target), mapped.outs, caution \o mapped.pushed)

\* What the URL field can hold, and the recipe /api/parse-url extracts from
\* each URL: one with amounts and units, one from structured data, whose
\* ingredients are whole lines with an empty amount.
PageUrls == {"https://example.com/pesto", "https://example.com/soup"}
ParsedRecipeOf(u) ==
    IF u = "https://example.com/pesto"
    THEN [title |-> Some("Pesto Omelette"), sourceUrl |-> Some(u), servings |-> Some(4),
          ingredients |-> Some(<<Ing("fresh basil", Some("1"), Some("cup")),
                                 Ing("eggs", Some("4"), Some(""))>>),
          steps |-> <<"Blend.", "Fry.">>, estimatedTimeMinutes |-> Some(15)]
    ELSE [title |-> Some("Onion Soup"), sourceUrl |-> Some(u), servings |-> Some(1),
          ingredients |-> Some(<<Ing("2 yellow onions", Some(""), Some(""))>>),
          steps |-> <<"Simmer.">>, estimatedTimeMinutes |-> Some(20)]

\* The options of the select of target servings.
TargetOptions == {1, 2, 3}

PageInit ==
    /\ PostIdle
    /\ FormatIdle
    /\ CategorizeIdle
    /\ ParseIdle
    /\ PolicyIdle
    /\ PageIdle

\* onChange of the URL field: setUrl(e.target.value)
ChangeUrl ==
    /\ \E u \in PageUrls \cup {""} : url # u /\ url' = u
    /\ UNCHANGED <<parsedRecipe, oneDishRecipe, urlLoading, urlError, targetServings,
                   convertLoading, convertError, parseFetch, convertFetch>>
    /\ UNCHANGED <<postVars, fmtVars, catVars, parseVars, policyVars>>

\* onChange of the select, rendered with the parsed recipe.
ChangeTargetServings ==
    /\ parsedRecipe # None
    /\ \E t \in TargetOptions : targetServings # t /\ targetServings' = t
    /\ UNCHANGED <<url, parsedRecipe, oneDishRecipe, urlLoading, urlError,
                   convertLoading, convertError, parseFetch, convertFetch>>
    /\ UNCHANGED <<postVars, fmtVars, catVars, parseVars, policyVars>>

\* handleUrlSubmit up to its await.  The submit button is disabled while
\* urlLoading; with an empty URL the handler alerts and returns.
handleUrlSubmit ==
    /\ ~urlLoading
    /\ url # ""
    /\ urlLoading' = TRUE
    /\ urlError' = None
    /\ parsedRecipe' = None
    /\ oneDishRecipe' = None
    /\ convertError' = None
    /\ parseFetch' = Some([url |-> url])
    /\ UNCHANGED <<url, targetServings, convertLoading, convertFetch>>
    /\ UNCHANGED <<postVars, fmtVars, catVars, parseVars, policyVars>>

\* The fetch of /api/parse-url resolves with an ok response:
\* setParsedRecipe(data), and the finally.
ParseUrlSucceeds ==
    /\ parseFetch # None
    /\ parsedRecipe' = Some(ParsedRecipeOf(Get(parseFetch).url))
    /\ urlLoading' = FALSE
    /\ parseFetch' = None
    /\ UNCHANGED <<url, oneDishRecipe, urlError, targetServings, convertLoading,
                   convertError, convertFetch>>
    /\ UNCHANGED <<postVars, fmtVars, catVars, parseVars, policyVars>>

\* It resolves with a response that is not ok (!res.ok), or rejects (catch).
ParseUrlFails ==
    /\ parseFetch # None
    /\ \E message \in {"Failed to extract recipe.",
                       "Something went wrong talking to the server."} :
          urlError' = Some(message)
    /\ urlLoading' = FALSE
    /\ parseFetch' = None
    /\ UNCHANGED <<url, parsedRecipe, oneDishRecipe, targetServings, convertLoading,
                   convertError, convertFetch>>
    /\ UNCHANGED <<postVars, fmtVars, catVars, parseVars, policyVars>>

\* handleConvertToOneDish up to its await.  The button is rendered with the
\* parsed recipe and disabled while convertLoading.
handleConvertToOneDish ==
    /\ parsedRecipe # None
    /\ ~convertLoading
    /\ convertLoading' = TRUE
    /\ convertError' = None
    /\ oneDishRecipe' = None
    /\ convertFetch' = Some([recipe |-> Get(parsedRecipe),
                             targetServings |-> targetServings])
    /\ UNCHANGED <<url, parsedRecipe, urlLoading, urlError, targetServings, parseFetch>>
    /\ UNCHANGED <<postVars, fmtVars, catVars, parseVars, policyVars>>

\* The fetch of /api/convert-recipe resolves with an ok response:
\* setOneDishRecipe(data), and the finally.
ConvertSucceeds ==
    /\ convertFetch # None
    /\ oneDishRecipe' = Some(ConvertedRecipe(Get(convertFetch).recipe,
                                             Some(Get(convertFetch).targetServings)))
    /\ convertLoading' = FALSE
    /\ convertFetch' = None
    /\ UNCHANGED <<url, parsedRecipe, urlLoading, urlError, targetServings,
                   convertError, parseFetch>>
    /\ UNCHANGED <<postVars, fmtVars, catVars, parseVars, policyVars>>

\* It resolves with a response that is not ok, or rejects.
ConvertFails ==
    /\ convertFetch # None
    /\ \E message \in {"Failed to convert recipe.",
                       "Something went wrong converting the recipe."} :
          convertError' = Some(message)
    /\ convertLoading' = FALSE
    /\ convertFetch' = None
    /\ UNCHANGED <<url, parsedRecipe, oneDishRecipe, urlLoading, urlError,
                   targetServings, parseFetch>>
    /\ UNCHANGED <<postVars, fmtVars, catVars, parseVars, policyVars>>

\* oneDishRecipe.ingredients.filter((_, i) => i !== index), index counted
\* from 1 here.
WithoutIndex(ings, index) ==
    SubSeq(ings, 1, index - 1) \o SubSeq(ings, index + 1, Len(ings))

\* handleRemoveOptionalIngredient(idx): the remove button of an optional
\* ingredient of the converted recipe.
handleRemoveOptionalIngredient ==
    /\ oneDishRecipe # None
    /\ \E index \in DOMAIN Get(oneDishRecipe).ingredients :
          /\ Get(oneDishRecipe).ingredients[index].optional
          /\ oneDishRecipe' =
               Some([Get(oneDishRecipe) EXCEPT
                       !.ingredients = WithoutIndex(@, index)])
    /\ UNCHANGED <<url, parsedRecipe, urlLoading, urlError, targetServings,
                   convertLoading, convertError, parseFetch, convertFetch>>
    /\ UNCHANGED <<postVars, fmtVars, catVars, parseVars, policyVars>>

PageNext ==
    \/ ChangeUrl
    \/ ChangeTargetServings
    \/ handleUrlSubmit
    \/ ParseUrlSucceeds
    \/ ParseUrlFails
    \/ handleConvertToOneDish
    \/ ConvertSucceeds
    \/ ConvertFails
    \/ handleRemoveOptionalIngredient

SpecPage == PageInit /\ [][PageNext]_vars

-----------------------------------------------------------------------------
(* Properties of POST                                                      *)

\* A conversion is under way or has answered with a converted recipe.
Converted == pc = "done" /\ response.status = 200
Converting == pc = "map" \/ Converted
InputIngredients == Get(Get(req.recipe).ingredients)
\* Whether s has no two equal elements.
NoDuplicates(ws) == \A a, b \in DOMAIN ws : ws[a] = ws[b] => a = b
FirstIndex(ws, w) == Min({k \in DOMAIN ws : ws[k] = w})
\* The text is a whole number: digits only.
IsWholeText(t) == AllDigits(t)

\* C1: an ingredient categorized as egg whose amount parses to a positive
\* number is written, for every positive factor, as a whole number that is
\* at least 1.
C1_EggAtLeastOne ==
    Converted =>
      \A i \in DOMAIN InputIngredients :
        LET ing == InputIngredients[i]
            base == parseAmountToNumber(ing.amount)
            written == response.body.ingredients[i].amount
        IN  (/\ categorizeIngredient(ing.name) = "egg"
             /\ ~IsNull(base)
             /\ Less(Zero, base)
             /\ Less(Zero, factor))
            => /\ IsSome(written)
               /\ IsWholeText(Get(written))
               /\ DigitsValue(Get(written), 10) >= 1

\* Eggs scaled below half an egg (4 eggs, servings 16 to 1) have been
\* written as "1".
C1_Witness ==
    /\ Converted
    /\ \E i \in DOMAIN InputIngredients :
         LET ing == InputIngredients[i]
         IN  /\ categorizeIngredient(ing.name) = "egg"
             /\ Less(Mul(parseAmountToNumber(ing.amount), factor), Half)
             /\ response.body.ingredients[i].amount = Some("1")

\* C2: the warnings of a converted recipe are absent when no warning was
\* pushed, and otherwise a non-empty list without duplicates, holding the
\* pushed warnings in the order of their first push (the baking caution,
\* pushed before the ingredients, first); never an empty list.
C2_WarningsDeduplicated ==
    Converted =>
      LET w == response.body.warnings
      IN  IF warnings = <<>> THEN w = None
          ELSE /\ IsSome(w)
               /\ Get(w) # <<>>
               /\ NoDuplicates(Get(w))
               /\ Range(Get(w)) = Range(warnings)
               /\ \A a, b \in DOMAIN Get(w) :
                    a < b => FirstIndex(warnings, Get(w)[a]) < FirstIndex(warnings, Get(w)[b])
               /\ BakingCaution \in Range(warnings) => Get(w)[1] = BakingCaution

\* A warning pushed twice is in the result once, after the baking caution.
C2_Witness ==
    /\ Converted
    /\ IsSome(response.body.warnings)
    /\ Len(Get(response.body.warnings)) < Len(warnings)
    /\ Len(Get(response.body.warnings)) = 2
    /\ Get(response.body.warnings)[1] = BakingCaution

\* C3: an ingredient whose amount does not parse is written with the name,
\* amount and unit of the input and optional = false, whatever its category
\* and the factor, and its step pushes no warning.
C3_UnparseablePassesThrough ==
    /\ [](Converted =>
            \A i \in DOMAIN InputIngredients :
              LET ing == InputIngredients[i]
              IN  IsNull(parseAmountToNumber(ing.amount)) =>
                    response.body.ingredients[i] =
                      [name |-> ing.name, amount |-> ing.amount, unit |-> ing.unit,
                       optional |-> FALSE])
    /\ [][(pc = "map" /\ Len(oneDishIngredients') = Len(oneDishIngredients) + 1) =>
            LET ing == InputIngredients[Len(oneDishIngredients')]
            IN  IsNull(parseAmountToNumber(ing.amount)) => warnings' = warnings]_vars

\* "to taste" has passed through a conversion that scales down, next to an
\* ingredient that did push a warning.
C3_Witness ==
    /\ Converted
    /\ Less(factor, One)
    /\ warnings # <<>>
    /\ \E i \in DOMAIN InputIngredients :
         /\ InputIngredients[i].amount = Some("to taste")
         /\ response.body.ingredients[i].amount = Some("to taste")
         /\ ~response.body.ingredients[i].optional

\* The fields a conversion passes through, and the ingredients kept in
\* number, order, name and unit.
PassedThrough ==
    LET recipe == Get(req.recipe)
        body == response.body
    IN  /\ body.title = recipe.title
        /\ body.sourceUrl = recipe.sourceUrl
        /\ body.steps = recipe.steps
        /\ body.estimatedTimeMinutes = recipe.estimatedTimeMinutes
        /\ Len(body.ingredients) = Len(InputIngredients)
        /\ \A i \in DOMAIN InputIngredients :
             /\ body.ingredients[i].name = InputIngredients[i].name
             /\ body.ingredients[i].unit = InputIngredients[i].unit

\* C4 as stated: a converted recipe has the title, sourceUrl, steps and
\* estimatedTimeMinutes of the input, its ingredients in number, order, name
\* and unit, and servings equal to the targetServings of the request.
C4_AsStated ==
    Converted =>
      /\ PassedThrough
      /\ req.targetServings = Some(response.body.servings)

\* C4, amended: as C4, with servings equal to targetServings when that is a
\* positive number and equal to 1 when it is absent or not positive.
C4_PassThroughAndServings ==
    Converted =>
      /\ PassedThrough
      /\ LET t == req.targetServings
         IN  IF t # None /\ Get(t) > 0 THEN response.body.servings = Get(t)
             ELSE response.body.servings = 1

\* A recipe of two ingredients, a source URL and two steps was converted
\* with targetServings -2, to 1 serving.
C4_Witness ==
    /\ Converted
    /\ Len(response.body.ingredients) = 2
    /\ response.body.sourceUrl # None
    /\ Len(response.body.steps) = 2
    /\ req.targetServings = Some(-2)
    /\ response.body.servings = 1

\* The factor the claims expect of a request.
ExpectedFactor ==
    LET s == Get(req.recipe).servings
        t == req.targetServings
        originalServings == IF s # None /\ Get(s) > 0 THEN Get(s) ELSE 1
        target == IF t # None /\ Get(t) > 0 THEN Get(t) ELSE 1
    IN  Rat(target, originalServings)

\* C5: the factor is targetServings / originalServings, originalServings
\* being recipe.servings when positive and 1 otherwise, and targetServings
\* being replaced by 1 when absent or not positive; every parseable
\* ingredient is scaled by it; and a request whose recipe has a title and an
\* ingredient list is answered with a converted recipe whatever its servings
\* and targetServings are.
C5_FactorAndDefaults ==
    /\ Converting => factor = ExpectedFactor
    /\ Converted =>
         \A i \in DOMAIN InputIngredients :
           ~IsNull(parseAmountToNumber(InputIngredients[i].amount)) =>
             response.body.ingredients[i] =
               ConvertIngredient(InputIngredients[i], ExpectedFactor).out
    /\ (pc = "done" /\ IsSome(req.recipe) /\ ~Throws(Get(req.recipe)))
         => response.status = 200

\* A recipe with no servings was converted with targetServings -2: the factor
\* is 1 and a parseable amount is written unscaled.
C5_Witness ==
    /\ Converted
    /\ Get(req.recipe).servings = None
    /\ req.targetServings = Some(-2)
    /\ factor = One
    /\ \E i \in DOMAIN InputIngredients :
         /\ InputIngredients[i].amount = Some("2")
         /\ response.body.ingredients[i].amount = Some("2")

\* The warnings of the result that name the ingredient: those holding its
\* name in double quotes.
WarningsNaming(name) ==
    LET w == response.body.warnings
        ws == IF w = None THEN <<>> ELSE Get(w)
    IN  {k \in DOMAIN ws : includes(ws[k], "\"" \o name \o "\"")}

\* C6: an output ingredient is optional exactly when its amount parses and
\* it is a herb scaled below 0.5 or a spice scaled below 0.25; an optional
\* ingredient is named by exactly one warning of the result and its written
\* amount is not below 1/4.
C6_OptionalHerbsAndSpices ==
    Converted =>
      \A i \in DOMAIN InputIngredients :
        LET ing == InputIngredients[i]
            out == response.body.ingredients[i]
            category == categorizeIngredient(ing.name)
            base == parseAmountToNumber(ing.amount)
            scaled == Mul(base, ExpectedFactor)
        IN  /\ out.optional <=>
                 /\ ~IsNull(base)
                 /\ \/ category = "herb" /\ Less(scaled, Half)
                    \/ category = "spice" /\ Less(scaled, Quarter)
            /\ out.optional =>
                 /\ Cardinality(WarningsNaming(ing.name)) = 1
                 /\ ~IsNull(parseAmountToNumber(out.amount))
                 /\ Leq(Quarter, parseAmountToNumber(out.amount))

\* servings 4, fresh basil "1" cup, targetServings 1: written "1/4",
\* optional, with one warning.
C6_Witness ==
    /\ Converted
    /\ Get(req.recipe).servings = Some(4)
    /\ req.targetServings = Some(1)
    /\ InputIngredients = <<Ing("fresh basil", Some("1"), Some("cup"))>>
    /\ response.body.ingredients[1].amount = Some("1/4")
    /\ response.body.ingredients[1].optional
    /\ Len(Get(response.body.warnings)) = 1

\* The baking-signal keywords that occur within the name of some ingredient.
SignalsWithinNames ==
    {k \in DOMAIN bakingSignals :
        \E i \in DOMAIN InputIngredients :
            includes(toLowerCase(InputIngredients[i].name), bakingSignals[k])}

\* C7 as stated: the baking caution is among the warnings exactly when the
\* factor is below 0.5 and the title holds a baking-dish keyword or at least
\* two baking-signal keywords each occur within the name of some ingredient;
\* the result then holds it once.
C7_BakingCautionAsStated ==
    Converting =>
      LET detected ==
            \/ \E k \in DOMAIN bakingWords :
                 includes(toLowerCase(Get(Get(req.recipe).title)), bakingWords[k])
            \/ Cardinality(SignalsWithinNames) >= 2
      IN  /\ BakingCaution \in Range(warnings) <=> (Less(factor, Half) /\ detected)
          /\ (Converted /\ BakingCaution \in Range(warnings)) =>
               Cardinality({k \in DOMAIN Get(response.body.warnings) :
                              Get(response.body.warnings)[k] = BakingCaution}) = 1

\* C8 as stated: a request whose recipe has an empty or absent ingredient
\* list is answered with an error, never with a converted recipe.
C8_EmptyIngredientsRejected ==
    (/\ pc = "done"
     /\ IsSome(req.recipe)
     /\ \/ Get(req.recipe).ingredients = None
        \/ Get(req.recipe).ingredients = Some(<<>>))
    => response.status # 200

-----------------------------------------------------------------------------
(* Properties of formatFraction and parseAmountToNumber                    *)

\* C9: for x in [0, MaxX], parsing the text formatFraction writes for x
\* yields a number, not null, within 0.125 of x, and x itself when x is a
\* multiple of 0.25.
C9_FormatParseRoundTrip ==
    fback # None =>
      LET back == Get(fback)
      IN  /\ ~IsNull(back)
          /\ Leq(RatAbs(Sub(back, fx)), Rat(1, 8))
          /\ (4 * fx.n) % fx.d = 0 => back = fx

\* A value half way between two quarters came back 0.125 higher, from a
\* text with a whole part and a fraction.
C9_Witness ==
    /\ fback # None
    /\ fx = Rat(11, 8)
    /\ ftext = Some("1 1/2")
    /\ Get(fback) = Rat(3, 2)

-----------------------------------------------------------------------------
(* Properties of categorizeIngredient                                      *)

\* The categories in the order of the tie-break, with their keywords.
GroupOrder ==
    << [category |-> "egg", words |-> {"egg"}],
       [category |-> "lemonLime", words |-> {"lemon", "lime"}],
       [category |-> "onion", words |-> {"onion", "shallot"}],
       [category |-> "garlic", words |-> {"garlic"}],
       [category |-> "herb", words |-> Range(HerbWords)],
       [category |-> "spice", words |-> Range(SpiceWords)],
       [category |-> "oil", words |-> Range(OilWords)],
       [category |-> "liquid", words |-> Range(LiquidWords)],
       [category |-> "flour", words |-> {"flour"}],
       [category |-> "sugar", words |-> {"sugar"}],
       [category |-> "bakingAgent", words |-> Range(BakingAgentWords)],
       [category |-> "salt", words |-> {"salt"}] >>

\* The groups one of whose keywords occurs in the name, whatever the case.
MatchingGroups(name) ==
    {g \in DOMAIN GroupOrder :
        \E w \in GroupOrder[g].words : includes(toLowerCase(name), w)}

\* C10: the category of a name is that of the first group, in the order
\* egg, lemonLime, onion, garlic, herb, spice, oil, liquid, flour, sugar,
\* bakingAgent, salt, one of whose keywords occurs in the name whatever the
\* case, and other exactly when no keyword of any group occurs.
C10_FirstMatchingGroup ==
    ccat # None =>
      LET M == MatchingGroups(cname)
      IN  IF M = {} THEN Get(ccat) = "other"
          ELSE /\ Get(ccat) = GroupOrder[Min(M)].category
               /\ Get(ccat) # "other"

\* "lemon juice", with a keyword of lemonLime and one of liquid, is lemonLime.
C10_Witness ==
    /\ cname = "lemon juice"
    /\ Cardinality(MatchingGroups(cname)) = 2
    /\ ccat = Some("lemonLime")

-----------------------------------------------------------------------------
(* Properties of parseAmountToNumber on any text                           *)

\* The notations the specification of the parser names, read off the text.
\* digits "/" digits, the denominator not zero.
IsFractionNotation(t) ==
    \E i \in 1..Len(t) :
        /\ Char(t, i) = "/"
        /\ AllDigits(SubSeq(t, 1, i - 1))
        /\ AllDigits(SubSeq(t, i + 1, Len(t)))
        /\ DigitsValue(SubSeq(t, i + 1, Len(t)), 10) # 0
\* digits, white space, a fraction.
IsMixedNotation(t) ==
    \E i, j \in 1..Len(t) :
        /\ i <= j
        /\ AllDigits(SubSeq(t, 1, i - 1))
        /\ AllSpace(SubSeq(t, i, j))
        /\ IsFractionNotation(SubSeq(t, j + 1, Len(t)))
\* A decimal or integer literal: an optional sign, digits, at most one
\* decimal point.
IsDecimalNotation(t) ==
    LET body == IF t # "" /\ Char(t, 1) \in {"+", "-"} THEN SubSeq(t, 2, Len(t)) ELSE t
    IN  /\ \E i \in 1..Len(body) : IsDigit(Char(body, i))
        /\ \A i \in 1..Len(body) : IsDigit(Char(body, i)) \/ Char(body, i) = "."
        /\ Cardinality({i \in 1..Len(body) : Char(body, i) = "."}) <= 1

\* C11 as stated: parseAmountToNumber returns a number exactly for a text
\* that, trimmed, is a fraction d+/d+ with a denominator other than 0, a
\* mixed number d+ d+/d+ with a denominator other than 0, or a decimal or
\* integer literal; for an absent amount and every other text it returns
\* null.
C11_NumberOnlyForDecimalNotation ==
    pvalue # None =>
      LET t == IF ptext = None THEN "" ELSE trim(Get(ptext))
      IN  ~IsNull(Get(pvalue)) <=>
            \/ IsFractionNotation(t)
            \/ IsMixedNotation(t)
            \/ IsDecimalNotation(t)

-----------------------------------------------------------------------------
(* Properties of formatFraction on the numbers the parser returns          *)

QuarterFractions == {"1/4", "1/2", "3/4"}
\* "{whole} {fraction}": digits, one space, one of the three fractions.
IsWholeAndFraction(t) ==
    \E i \in 1..Len(t) :
        /\ Char(t, i) = " "
        /\ AllDigits(SubSeq(t, 1, i - 1))
        /\ SubSeq(t, i + 1, Len(t)) \in QuarterFractions

\* C12 as stated: for every number parseAmountToNumber returns,
\* formatFraction writes "0", or one of "1/4", "1/2", "3/4", or a whole
\* number in digits, or "{whole} {fraction}"; the text holds no decimal
\* point, and the number it denotes is round(value * 4) / 4.
C12_FormatWritesQuarters ==
    pformatted # None =>
      LET value == Get(pvalue)
          t == Get(pformatted)
      IN  /\ \/ t = "0"
             \/ t \in QuarterFractions
             \/ AllDigits(t)
             \/ IsWholeAndFraction(t)
          /\ ~includes(t, ".")
          /\ parseAmountToNumber(Some(t)) = Rat(Round(Mul(value, Whole(4))), 4)

-----------------------------------------------------------------------------
(* Properties of the callback of recipe.ingredients.map                    *)

\* The ingredient of the callback check, as the claims speak of it.
GivenCategory == categorizeIngredient(xing.name)
GivenBase == parseAmountToNumber(xing.amount)
GivenScaled == Mul(GivenBase, xfactor)
\* The amount written, as a number.
WrittenAmount == parseAmountToNumber(Get(xresult).out.amount)
\* Whether a warning the callback pushed names the ingredient in quotes.
PushedNaming ==
    \E k \in DOMAIN Get(xresult).pushed :
        includes(Get(xresult).pushed[k], "\"" \o xing.name \o "\"")
\* The warning of a category whose warning says rounding changed the amount.
RoundingWarningOf(category) ==
    IF category = "egg" THEN EggWarning
    ELSE IF category = "lemonLime" THEN LemonLimeWarning
    ELSE IF category = "onion" THEN OnionWarning
    ELSE GarlicWarning

\* C13 as stated: for a parseable ingredient of category egg, lemonLime,
\* onion or garlic, the rounding warning of the category is pushed exactly
\* when the final amount differs from the scaled value by more than 1e-6,
\* in all four categories alike.
C13_SameEpsilonInAllFour ==
    (/\ xresult # None
     /\ ~IsNull(GivenBase)
     /\ GivenCategory \in {"egg", "lemonLime", "onion", "garlic"})
    => (RoundingWarningOf(GivenCategory) \in Range(Get(xresult).pushed)
          <=> AbsAbove(Sub(WrittenAmount, GivenScaled), CloseToDen))

\* C14: for a parseable ingredient of category oil or liquid, the amount
\* written is max(0.5, scaled rounded to the nearest half), the ingredient
\* is not optional, and a warning naming it is pushed exactly when the
\* scaled value is below 0.5.
C14_LiquidFloorAndWarning ==
    (/\ xresult # None
     /\ ~IsNull(GivenBase)
     /\ GivenCategory \in {"oil", "liquid"})
    => /\ WrittenAmount = RatMax(Half, Rat(Round(Mul(GivenScaled, Whole(2))), 2))
       /\ ~Get(xresult).out.optional
       /\ PushedNaming <=> Less(GivenScaled, Half)

\* Olive oil "0.4" at factor 1 rounds to a half by itself, is written "1/2"
\* and is warned about, 0.4 being below 0.5.
C14_Witness ==
    /\ xresult # None
    /\ xing = Ing("olive oil", Some("0.4"), Some("cup"))
    /\ xfactor = One
    /\ Get(xresult).out.amount = Some("1/2")
    /\ Get(xresult).pushed = <<LowLiquidWarning("olive oil")>>

\* C15 as stated: for a parseable ingredient of category flour, sugar or
\* bakingAgent, the amount written is the scaled value rounded to the
\* nearest quarter, with no floor, the ingredient is not optional, and a
\* warning naming it is pushed exactly when the scaled value is below a
\* quarter of the parsed amount.
C15_AsStated ==
    (/\ xresult # None
     /\ ~IsNull(GivenBase)
     /\ GivenCategory \in {"flour", "sugar", "bakingAgent"})
    => /\ WrittenAmount = Rat(Round(Mul(GivenScaled, Whole(4))), 4)
       /\ ~Get(xresult).out.optional
       /\ PushedNaming <=> Less(GivenScaled, Mul(GivenBase, Quarter))

\* C15, amended: as C15, the amount written being the scaled value rounded
\* to the nearest quarter when the scaled value is positive, and 0 when it
\* is zero or negative.
C15_QuarterOrZero ==
    (/\ xresult # None
     /\ ~IsNull(GivenBase)
     /\ GivenCategory \in {"flour", "sugar", "bakingAgent"})
    => /\ WrittenAmount = (IF Less(Zero, GivenScaled)
                           THEN Rat(Round(Mul(GivenScaled, Whole(4))), 4)
                           ELSE Zero)
       /\ ~Get(xresult).out.optional
       /\ PushedNaming <=> Less(GivenScaled, Mul(GivenBase, Quarter))

\* Flour "1/4" cup at factor 1/8 rounds to 0: it is written "0", not "1/4",
\* and warned about.
C15_Witness ==
    /\ xresult # None
    /\ xing = Ing("flour", Some("1/4"), Some("cup"))
    /\ xfactor = Rat(1, 8)
    /\ Get(xresult).out.amount = Some("0")
    /\ ~Get(xresult).out.optional
    /\ Get(xresult).pushed = <<StructuralWarning("flour")>>

-----------------------------------------------------------------------------
(* Properties of the page                                                  *)

\* The converted recipe is one of the recipe: it has its title, source URL
\* and steps (the recipes of the page differ in each).
DerivedFrom(converted, recipe) ==
    /\ converted.title = recipe.title
    /\ converted.sourceUrl = recipe.sourceUrl
    /\ converted.steps = recipe.steps

\* C16 as stated: whenever the page holds a converted recipe in
\* oneDishRecipe, it holds in parsedRecipe the parsed recipe it was derived
\* from; a convert response that arrives after a URL submission has cleared
\* or replaced parsedRecipe installs nothing of the superseded recipe.
C16_ConvertedIsOfParsedRecipe ==
    oneDishRecipe # None =>
      /\ parsedRecipe # None
      /\ DerivedFrom(Get(oneDishRecipe), Get(parsedRecipe))

====
